---- MODULE Spec2Model ----
(***************************************************************************)
(* State-machine model of the app-builder orchestration engine:            *)
(*   - the code-generation sub-graph (src/ai/graphs/code_agents_graph.py)   *)
(*     with its six code-gen agents (src/ai/agents/code_agents/*.py),       *)
(*   - the orchestrator graph (src/ai/graphs/orchestrator_graph.py) with    *)
(*     impact analysis and the spec planner.                                *)
(* Python's None is the value NONE; a LangGraph node is one action that     *)
(* applies the node's returned state and then evaluates its outgoing edge.  *)
(***************************************************************************)
EXTENDS Integers, Sequences, FiniteSets, TLC

VARIABLES
    state,          \* OrchestratorState: the checkpointed top-level workflow state
    pc,             \* top-level node about to run, or "idle" / "END" / "error"
    sub,            \* CodeAgentsState: the state of the code-generation sub-graph
    sub_pc,         \* sub-graph node about to run, or "idle" / "END" / "error"
    fs,             \* files written below generated_apps/ by the current invocation
    disk,           \* the three snapshot files of <root_dir>/spec/
    error,          \* the exception that aborted the current run, or NONE
    trace,          \* top-level nodes executed by the current run, in order
    invoked,        \* <<agent stage, cursor>> of every agent invocation of the sub-graph run
    planner_calls,  \* layer ids for which the spec planner called its LLM chain in this run
    probe,          \* argument/result cell of a pure function under test
    runs,           \* invocations of the orchestrator graph made on the thread so far
    finalized,      \* the spec plan of the last run on the thread that completed finalize
    input           \* the input dict of the current invocation of the orchestrator graph

vars == <<state, pc, sub, sub_pc, fs, disk, error, trace, invoked, planner_calls, probe, runs,
          finalized, input>>

\* Python's None, by the type of the field that holds it.
NONE == "None"                          \* an absent string (mode, root_dir, error, ...)
NoneDict == [none |-> TRUE]             \* an absent dict (intent, architecture)
NoneList == <<NoneDict>>                \* an absent list of dicts (spec_plan, manifests)
NoneLayers == <<NONE>>                  \* an absent list of layer ids (affected_layers)
NoneQueue == <<<<NONE, NONE>>>>         \* an absent execution queue
NoneIndex == -1                         \* an absent cursor
NoneText == <<<<NONE>>>>                \* an absent list of lines (requirements_text)

\* ------------------------------------------------------------------ bounds
MaxLayers == 3      \* longest layer list of an architecture handed to the sub-graph

\* The invocation history keeps one entry more than any queue has, then stops growing.
HistoryCap == MaxLayers + 1

\* ------------------------------------------------------------------ helpers
Min(S) == CHOOSE x \in S : \A y \in S : x <= y

Range(s) == {s[i] : i \in 1..Len(s)}

IsPrefix(s, t) == Len(s) <= Len(t) /\ \A i \in 1..Len(s) : s[i] = t[i]

\* All duplicate-free sequences over S of length 0..n.
RECURSIVE InjSeqs(_, _)
InjSeqs(S, n) ==
    IF n = 0 THEN {<<>>}
    ELSE LET shorter == InjSeqs(S, n - 1)
         IN shorter \cup UNION {{Append(s, x) : x \in S \ Range(s)} : s \in shorter}

\* ------------------------------------------------------------------ layers
\* An allowlist that lets a layer without an agent into the queue.
ImplementedLayersWithDocs ==
    {"backend_models", "database", "backend_services", "backend_routes",
     "backend_app", "frontend_ui", "docs"}

\* Layer IDs that have implemented agents (the allowlist of the queue builder).
implemented_layers ==
    {"backend_models", "database", "backend_services", "backend_routes",
     "backend_app", "frontend_ui"}

\* A layer id the architect may declare although no code-gen agent exists for it.
UnimplementedLayer == "docs"

LayerIds == implemented_layers \cup {UnimplementedLayer}

\* The path convention the architect is prompted with.
PathOf(id) ==
    CASE id = "backend_models"   -> "backend/models"
      [] id = "database"         -> "backend/db"
      [] id = "backend_services" -> "backend/services"
      [] id = "backend_routes"   -> "backend/routes"
      [] id = "backend_app"      -> "backend/main.py"
      [] id = "frontend_ui"      -> "frontend"
      [] OTHER                   -> "docs"

\* The dependency pattern the architect is prompted with
\* (models -> database -> services -> routes -> app + frontend).
UpstreamOf(id) ==
    CASE id = "database"         -> {"backend_models"}
      [] id = "backend_services" -> {"backend_models", "database"}
      [] id = "backend_routes"   -> {"backend_services"}
      [] id = "backend_app"      -> {"backend_routes"}
      [] id = "frontend_ui"      -> {"backend_routes"}
      [] OTHER                   -> {}

\* ExecutionLayer records of an architecture that declares `ids` in this order;
\* depends_on names the upstream layers that the architecture contains.
LayersOf(ids) ==
    [i \in 1..Len(ids) |->
        [id |-> ids[i], path |-> PathOf(ids[i]),
         depends_on |-> UpstreamOf(ids[i]) \cap Range(ids)]]

ArchitectureOf(ids) == [execution_layers |-> LayersOf(ids)]

LayerIdsOf(architecture) ==
    [i \in 1..Len(architecture.execution_layers) |-> architecture.execution_layers[i].id]

\* Architectures given to the code-generation sub-graph.
Architectures == {ArchitectureOf(ids) : ids \in InjSeqs(LayerIds, MaxLayers)}

\* ------------------------------------------------------------------ intents
\* An intent as the sub-graph reads it: only primary_entities is looked at there.
Field(name, type) == [name |-> name, type |-> type, required |-> TRUE]

Entity(name, fields) == [name |-> name, fields |-> fields]

DefaultUI == [complexity |-> "basic", interaction_style |-> "form_and_list"]

DashboardUI == [complexity |-> "advanced", interaction_style |-> "dashboard"]

Operations(entity_name, operations) == [entity_name |-> entity_name, operations |-> operations]

TaskIntent ==
    [primary_entities |-> <<Entity("Task", <<Field("title", "string")>>)>>,
     operations |-> <<Operations("Task", <<"create", "read">>)>>,
     ui_expectations |-> DefaultUI]

\* TaskIntent after the feedback "add a due date".
TaskIntentWithDue ==
    [TaskIntent EXCEPT !.primary_entities =
        <<Entity("Task", <<Field("title", "string"), Field("due_date", "date")>>)>>]

\* The field lists, entity lists, operation lists and UI expectations the intents
\* handed to impact analysis are built from.
TaskFieldLists ==
    {<<Field("title", "string")>>,
     <<Field("title", "string"), Field("due_date", "date")>>,
     <<Field("title", "integer")>>}

NoteEntity == Entity("Note", <<Field("body", "string")>>)

EntityLists ==
    {<<>>, <<NoteEntity>>}
    \cup {<<Entity("Task", fields)>> : fields \in TaskFieldLists}
    \cup {<<Entity("Task", fields), NoteEntity>> : fields \in TaskFieldLists}

EntityNames(entities) == {entities[i].name : i \in 1..Len(entities)}

\* Operation lists that pass IntentModel.validate_operations for `entities`.
OperationLists(entities) ==
    LET task_part == IF "Task" \in EntityNames(entities)
                     THEN {<<>>, <<Operations("Task", <<"create", "read">>)>>,
                           <<Operations("Task", <<"read", "create">>)>>,
                           <<Operations("Task", <<"create">>)>>}
                     ELSE {<<>>}
        note_part == IF "Note" \in EntityNames(entities)
                     THEN {<<>>, <<Operations("Note", <<"read">>)>>}
                     ELSE {<<>>}
    IN {t \o n : t \in task_part, n \in note_part}

Intents ==
    UNION {{[primary_entities |-> entities, operations |-> operations, ui_expectations |-> ui] :
                operations \in OperationLists(entities), ui \in {DefaultUI, DashboardUI}} :
           entities \in EntityLists}

\* ------------------------------------------------------------------ specs and manifests
RootDir == "generated_apps/app"

\* One entry of a spec plan; the spec itself is the planning call's opaque output,
\* told apart by the invocation (generation) that produced it.
LayerSpec(layer_id, generation) == [for_layer |-> layer_id, generation |-> generation]

SpecEntry(layer_id, payload) == [layer_id |-> layer_id, spec |-> payload]

\* for spec in state.get("specs"): if spec.get("layer_id") == current_layer_id: ...; break
\* A lookup that makes up a spec for a layer the spec list does not cover.
FindSpecOrDefault(specs, layer_id) ==
    LET hits == {i \in 1..Len(specs) : specs[i].layer_id = layer_id}
    IN IF hits = {} THEN [for_layer |-> layer_id, generation |-> 0]
       ELSE specs[Min(hits)].spec

FindSpec(specs, layer_id) ==
    LET hits == {i \in 1..Len(specs) : specs[i].layer_id = layer_id}
    IN IF hits = {} THEN NoneDict ELSE specs[Min(hits)].spec

\* os.path.basename on a filename given as its path components.
Basename(filename) == IF Len(filename) = 0 THEN "" ELSE filename[Len(filename)]

\* What the opaque generation call of an agent may return: a list of files, or a failure.
GeneratedFile(filename, dependencies) == [filename |-> filename, dependencies |-> dependencies]

GenerationResults ==
    {[ok |-> TRUE, files |-> <<GeneratedFile(<<"pkg", "module.py">>,
                                             <<<<"p", "y", "d", "a", "n", "t", "i", "c", " ">>,
                                               <<"f", "a", "s", "t", "a", "p", "i">>>>),
                               GeneratedFile(<<"extra.py">>, <<>>)>>],
     [ok |-> FALSE, files |-> <<>>]}

\* ManifestFile(file_path=os.path.join(current_layer_path, basename), dependencies=...)
ManifestFiles(path, files) ==
    [i \in 1..Len(files) |->
        [file_path |-> <<path, Basename(files[i].filename)>>,
         dependencies |-> files[i].dependencies]]

Manifest(layer_id, spec, path, files) ==
    [layer_id |-> layer_id, spec |-> spec, manifest_files |-> ManifestFiles(path, files)]

WrittenFiles(root_dir, path, files) ==
    {<<root_dir, path, Basename(files[i].filename)>> : i \in 1..Len(files)}

\* ------------------------------------------------------------------ code-generation sub-graph
\* A queue builder that moves the layers without dependencies to the front.
BuildQueueRootsFirst(layers, allowlist) ==
    LET Pairs(ls) == [i \in 1..Len(ls) |-> <<ls[i].id, ls[i].path>>]
        known == SelectSeq(layers, LAMBDA l : l.id \in allowlist)
    IN Pairs(SelectSeq(known, LAMBDA l : l.depends_on = {}))
          \o Pairs(SelectSeq(known, LAMBDA l : l.depends_on # {}))

\* execution_queue = [(layer["id"], layer["path"]) for layer in ... if layer["id"] in implemented_layers]
RECURSIVE BuildQueue(_, _)
BuildQueue(layers, allowlist) ==
    IF Len(layers) = 0 THEN <<>>
    ELSE LET layer == Head(layers)
             rest == BuildQueue(Tail(layers), allowlist)
         IN IF layer.id \in allowlist THEN <<<<layer.id, layer.path>>>> \o rest ELSE rest

\* The agent stage each implemented layer id belongs to.
AgentOfLayer ==
    [backend_models |-> "backend_model_agent", database |-> "database_agent",
     backend_services |-> "backend_service_agent", backend_routes |-> "backend_route_agent",
     backend_app |-> "backend_app_agent", frontend_ui |-> "frontend_agent"]

\* A router that skips a layer without an agent instead of failing.
SkippingRouter(next_layer_index, execution_queue) ==
    IF next_layer_index >= Len(execution_queue) THEN "finalize"
    ELSE IF execution_queue[next_layer_index + 1][1] \in DOMAIN AgentOfLayer
         THEN AgentOfLayer[execution_queue[next_layer_index + 1][1]]
         ELSE "finalize"

\* The stage the sub-graph router names for (next_layer_index, execution_queue).
global_router(next_layer_index, execution_queue) ==
    IF next_layer_index = Len(execution_queue) THEN "finalize"
    ELSE IF next_layer_index > Len(execution_queue) THEN "IndexError"
    ELSE LET next_node == execution_queue[next_layer_index + 1][1]
         IN CASE next_node = "backend_models"   -> "backend_model_agent"
              [] next_node = "backend_services" -> "backend_service_agent"
              [] next_node = "backend_routes"   -> "backend_route_agent"
              [] next_node = "frontend_ui"      -> "frontend_agent"
              [] next_node = "database"         -> "database_agent"
              [] next_node = "backend_app"      -> "backend_app_agent"
              [] OTHER                          -> "ValueError"

RouterErrors == {"IndexError", "ValueError"}

AgentStages ==
    {"backend_model_agent", "database_agent", "backend_service_agent",
     "backend_route_agent", "backend_app_agent", "frontend_agent"}

\* An exception raised inside the sub-graph ends it; when the sub-graph was invoked
\* by the orchestrator's wrapper node the exception unwinds the orchestrator run too.
SubRaise(message) ==
    /\ sub_pc' = "error"
    /\ error' = message
    /\ pc' = IF pc = "code_agents" THEN "error" ELSE pc

\* A sub-graph node returned new_sub: the state is committed, then the conditional
\* edge (global_router) names the next node.
SubCommit(new_sub) ==
    LET next == global_router(new_sub.next_layer_index, new_sub.execution_queue)
    IN IF next \in RouterErrors
       THEN SubRaise(next) /\ UNCHANGED sub
       ELSE sub' = new_sub /\ sub_pc' = next /\ UNCHANGED <<error, pc>>

initialize_execution_queue ==
    /\ sub_pc = "initialize_execution_queue"
    /\ IF sub.architecture = NoneDict
       THEN SubRaise("ValueError: architecture is required in state") /\ UNCHANGED sub
       ELSE SubCommit([sub EXCEPT
                !.execution_queue = BuildQueue(sub.architecture.execution_layers, implemented_layers),
                !.next_layer_index = 0])
    /\ UNCHANGED <<state, fs, disk, trace, invoked, planner_calls, probe, runs, finalized, input>>

\* The "manifests" entry of the state an agent returns.
AppendManifest(manifests, manifest) == Append(manifests, manifest)

ReplaceManifests(manifests, manifest) == <<manifest>>

\* A cursor that skips a queue entry.
AdvanceCursorTwice(current_layer_index) == current_layer_index + 2

\* A cursor that stays where it is.
KeepCursor(current_layer_index) == current_layer_index

\* The "next_layer_index" entry of the state an agent returns.
AdvanceCursor(current_layer_index) == current_layer_index + 1

\* The body shared by the six agents' __call__: look up the queue entry and its spec,
\* call the generation chain, write the files, return manifests and cursor. `appends`
\* tells whether the agent returns the received list plus its manifest or its manifest
\* alone.
AgentCall(stage, appends) ==
    /\ LET current_layer_index == sub.next_layer_index
           current_layer_id == sub.execution_queue[current_layer_index + 1][1]
           current_layer_path == sub.execution_queue[current_layer_index + 1][2]
           layer_spec == FindSpec(sub.specs, current_layer_id)
       IN /\ invoked' = IF Len(invoked) < HistoryCap
                       THEN Append(invoked, <<stage, current_layer_index>>)
                       ELSE invoked
          /\ IF sub.intent = NoneDict
             THEN SubRaise("AttributeError: intent") /\ UNCHANGED <<sub, fs>>
             ELSE IF layer_spec = NoneDict
             THEN SubRaise("ValueError: spec is required in state") /\ UNCHANGED <<sub, fs>>
             ELSE \E result \in GenerationResults :
                    IF ~result.ok
                    THEN SubRaise("LLM call failed") /\ UNCHANGED <<sub, fs>>
                    ELSE IF sub.root_dir = NONE
                    THEN SubRaise("ValueError: root_dir is required in state")
                         /\ UNCHANGED <<sub, fs>>
                    ELSE /\ fs' = fs \cup WrittenFiles(sub.root_dir, current_layer_path,
                                                       result.files)
                         /\ SubCommit([sub EXCEPT
                                !.manifests =
                                    LET manifest == Manifest(current_layer_id, layer_spec,
                                                        current_layer_path, result.files)
                                    IN IF appends THEN AppendManifest(@, manifest)
                                       ELSE ReplaceManifests(@, manifest),
                                !.next_layer_index = AdvanceCursor(current_layer_index)])
    /\ UNCHANGED <<state, disk, trace, planner_calls, probe, runs, finalized, input>>

BackendModelAgent ==
    /\ sub_pc = "backend_model_agent"
    /\ AgentCall("backend_model_agent", FALSE)

DatabaseAgent ==
    /\ sub_pc = "database_agent"
    /\ AgentCall("database_agent", TRUE)

BackendServiceAgent ==
    /\ sub_pc = "backend_service_agent"
    /\ AgentCall("backend_service_agent", TRUE)

BackendRouterAgent ==
    /\ sub_pc = "backend_route_agent"
    /\ AgentCall("backend_route_agent", TRUE)

BackendAppAgent ==
    /\ sub_pc = "backend_app_agent"
    /\ AgentCall("backend_app_agent", TRUE)

FrontendAgent ==
    /\ sub_pc = "frontend_agent"
    /\ AgentCall("frontend_agent", TRUE)

\* The sub-graph's finalize node: requirements.txt and run.sh, state returned as is.
finalize ==
    /\ sub_pc = "finalize"
    /\ IF sub.root_dir = NONE
       THEN SubRaise("ValueError: root_dir is required in state") /\ UNCHANGED fs
       ELSE /\ fs' = fs \cup {<<sub.root_dir, "requirements.txt">>, <<sub.root_dir, "run.sh">>}
            /\ sub_pc' = "END"
            /\ UNCHANGED <<error, pc>>
    /\ UNCHANGED <<state, sub, disk, trace, invoked, planner_calls, probe, runs, finalized, input>>

SubGraphStep ==
    \/ initialize_execution_queue
    \/ BackendModelAgent
    \/ DatabaseAgent
    \/ BackendServiceAgent
    \/ BackendRouterAgent
    \/ BackendAppAgent
    \/ FrontendAgent
    \/ finalize

\* ------------------------------------------------------------------ sub-graph on its own
\* The checkpoint of a thread that has not run yet.
EmptyState ==
    [raw_user_input |-> NONE, user_feedback |-> NONE, mode |-> NONE, root_dir |-> NONE,
     intent |-> NoneDict, existing_intent |-> NoneDict,
     architecture |-> NoneDict, existing_architecture |-> NoneDict,
     spec_plan |-> NoneList, affected_layers |-> NoneLayers,
     impact_analysis_changes |-> NoneDict,
     manifests |-> NoneList, requirements_text |-> NoneText,
     agent_registry |-> NONE, layer_constraints |-> NONE]

IdleSub ==
    [intent |-> NoneDict, architecture |-> NoneDict, specs |-> <<>>, manifests |-> <<>>,
     execution_queue |-> NoneQueue, next_layer_index |-> NoneIndex, root_dir |-> NONE]

\* An input that hands the sub-graph the manifests the orchestrator state holds.
CodeAgentsInputWithManifests(intent, architecture, specs, root_dir) ==
    [intent |-> intent, architecture |-> architecture, specs |-> specs,
     manifests |-> IF state.manifests = <<[none |-> TRUE]>> THEN <<>> ELSE state.manifests,
     execution_queue |-> <<<<"None", "None">>>>, next_layer_index |-> -1,
     root_dir |-> root_dir]

\* The initial CodeAgentsState built for one invocation of the sub-graph.
CodeAgentsInput(intent, architecture, specs, root_dir) ==
    [intent |-> intent, architecture |-> architecture, specs |-> specs,
     manifests |-> <<>>, execution_queue |-> NoneQueue, next_layer_index |-> NoneIndex,
     root_dir |-> root_dir]

\* A spec list for the layers of `architecture`, leaving out the layer `without`.
SpecsFor(architecture, without) ==
    LET ids == LayerIdsOf(architecture)
        kept == SelectSeq(ids, LAMBDA id : id # without)
    IN [i \in 1..Len(kept) |-> SpecEntry(kept[i], LayerSpec(kept[i], 0))]

\* The sub-graph invoked with a caller's intent, architecture and specs: by
\* run_code_agents (no root_dir in the input) or with the root_dir of a run.
InitCodeGen ==
    /\ \E architecture \in Architectures :
       \E without \in Range(LayerIdsOf(architecture)) \cup {NONE} :
       \E root_dir \in {RootDir, NONE} :
           sub = CodeAgentsInput(TaskIntent, architecture,
                                 SpecsFor(architecture, without), root_dir)
    /\ sub_pc = "initialize_execution_queue"
    /\ pc = "idle"
    /\ state = EmptyState
    /\ fs = {}
    /\ disk = [intent |-> NoneDict, architecture |-> NoneDict, spec_plan |-> NoneList]
    /\ error = NONE
    /\ trace = <<>>
    /\ invoked = <<>>
    /\ planner_calls = {}
    /\ probe = NoneDict
    /\ runs = 0
    /\ finalized = NoneList
    /\ input = NoneDict

CodeGenSpec == InitCodeGen /\ [][SubGraphStep]_vars

\* The sub-graph's scheduler runs the next node whenever there is one.
FairCodeGenSpec == CodeGenSpec /\ WF_vars(SubGraphStep)

\* ------------------------------------------------------------------ the router on its own
MaxQueue == 2       \* longest queue handed to the router as a bare argument

RECURSIVE SeqsUpTo(_, _)
SeqsUpTo(S, n) ==
    IF n = 0 THEN {<<>>}
    ELSE LET shorter == SeqsUpTo(S, n - 1)
         IN shorter \cup {Append(s, x) : s \in shorter, x \in S}

\* Every queue of (layer_id, path) pairs up to MaxQueue entries, with every cursor
\* from 0 to one past its length.
InitRouter ==
    /\ \E ids \in SeqsUpTo(LayerIds, MaxQueue) :
       \E next_layer_index \in 0..(Len(ids) + 1) :
           probe = [execution_queue |-> [i \in 1..Len(ids) |-> <<ids[i], PathOf(ids[i])>>],
                    next_layer_index |-> next_layer_index,
                    routed |-> FALSE, next |-> NONE]
    /\ sub = IdleSub
    /\ sub_pc = "idle"
    /\ pc = "idle"
    /\ state = EmptyState
    /\ fs = {}
    /\ disk = [intent |-> NoneDict, architecture |-> NoneDict, spec_plan |-> NoneList]
    /\ error = NONE
    /\ trace = <<>>
    /\ invoked = <<>>
    /\ planner_calls = {}
    /\ runs = 0
    /\ finalized = NoneList
    /\ input = NoneDict

Route ==
    /\ ~probe.routed
    /\ probe' = [probe EXCEPT
            !.routed = TRUE,
            !.next = global_router(probe.next_layer_index, probe.execution_queue)]
    /\ UNCHANGED <<state, pc, sub, sub_pc, fs, disk, error, trace, invoked, planner_calls, runs, finalized, input>>

RouterSpec == InitRouter /\ [][Route]_vars

\* ------------------------------------------------------------------ claims on the sub-graph
QueueBuilt == sub.execution_queue # NoneQueue

SubGraphAtFinalize == sub_pc \in {"finalize", "END"}

C1_EmptyQueueWitness ==
    /\ sub_pc = "END"
    /\ sub.execution_queue = <<>>
    /\ Len(sub.architecture.execution_layers) > 0

\* C2: every agent stage returns the manifest list it received with exactly one
\* manifest appended: the length grows by one and the earlier manifests stay in place.
C2_ManifestAppendOnly ==
    [][sub.next_layer_index # NoneIndex /\ sub.next_layer_index' # sub.next_layer_index
          => /\ Len(sub.manifests') = Len(sub.manifests) + 1
             /\ SubSeq(sub.manifests', 1, Len(sub.manifests)) = sub.manifests]_vars

\* C3: the agent of queue position k reads the manifests of positions 0..k-1 in queue
\* order, and at finalize there is one manifest per queue entry, manifest i carrying
\* the layer id of queue entry i.
C3_ManifestsFollowQueue ==
    (QueueBuilt /\ sub_pc \in AgentStages \cup {"finalize", "END"}) =>
        /\ Len(sub.manifests) = sub.next_layer_index
        /\ \A i \in 1..Len(sub.manifests) :
              sub.manifests[i].layer_id = sub.execution_queue[i][1]

\* C4: every agent stage moves the cursor forward by exactly one, and the sub-graph
\* terminates for every architecture: unless a stage fails, the cursor reaches the
\* queue length, the router names finalize and the sub-graph ends.
C4_SubGraphTerminates ==
    /\ [][(sub_pc \in AgentStages /\ sub_pc' # "error")
              => (sub.next_layer_index' = sub.next_layer_index + 1)]_vars
    /\ <>(sub_pc \in {"END", "error"})
    /\ [](sub_pc = "END" => /\ sub.next_layer_index = Len(sub.execution_queue)
                            /\ error = NONE)

C4_Witness ==
    /\ sub_pc = "END"
    /\ Len(sub.execution_queue) = MaxLayers
    /\ sub.next_layer_index = MaxLayers

\* C5: the router's answer for (next_layer_index, execution_queue): finalize when the
\* index equals the queue length, the agent of the layer id at the index otherwise,
\* and an error for a layer id outside the mapping.
C5_RouterTable ==
    probe.routed =>
        LET index == probe.next_layer_index
            queue == probe.execution_queue
        IN /\ index = Len(queue) => probe.next = "finalize"
           /\ index < Len(queue) =>
                 LET layer_id == queue[index + 1][1]
                 IN /\ layer_id \in DOMAIN AgentOfLayer => probe.next = AgentOfLayer[layer_id]
                    /\ layer_id \notin DOMAIN AgentOfLayer => probe.next = "ValueError"

C5_Witness ==
    /\ probe.routed
    /\ probe.next = "ValueError"
    /\ probe.next_layer_index = 1

\* Position of a layer id in the architecture's declared order.
DeclaredAt(architecture, layer_id) ==
    Min({i \in 1..Len(architecture.execution_layers) :
            architecture.execution_layers[i].id = layer_id})

Max(S) == CHOOSE x \in S : \A y \in S : x >= y

\* {item.get("name"): item for item in items if item.get("name")}: a later item
\* replaces an earlier one of the same name, an item with an empty name is left out.
ByName(items) ==
    LET names == {items[i].name : i \in 1..Len(items)} \ {""}
    IN [n \in names |-> items[Max({i \in 1..Len(items) : items[i].name = n})]]

\* {entity_name: set(operations)} of an intent's operations list.
OperationSets(operations_list) ==
    LET names == {operations_list[i].entity_name : i \in 1..Len(operations_list)} \ {""}
    IN [n \in names |->
          Range(operations_list[Max({i \in 1..Len(operations_list) :
                                        operations_list[i].entity_name = n})].operations)]

\* A reading of an entity's fields that takes the description in as one more field.
EntityFieldsAndDescription(entity) ==
    Append(entity.fields, [name |-> "description", type |-> entity.description,
                           required |-> TRUE])

\* entity.get("fields", [])
EntityFields(entity) == entity.fields

_analyze_intent_changes(old_intent, new_intent) ==
    LET old_entities == ByName(old_intent.primary_entities)
        new_entities == ByName(new_intent.primary_entities)
        old_entity_names == DOMAIN old_entities
        new_entity_names == DOMAIN new_entities
        field_changes(entity_name) ==
            LET old_fields == ByName(EntityFields(old_entities[entity_name]))
                new_fields == ByName(EntityFields(new_entities[entity_name]))
            IN [fields_added |-> DOMAIN new_fields \ DOMAIN old_fields,
                fields_removed |-> DOMAIN old_fields \ DOMAIN new_fields,
                fields_modified |-> {f \in DOMAIN old_fields \cap DOMAIN new_fields :
                                        old_fields[f] # new_fields[f]}]
        any_change(fc) ==
            fc.fields_added # {} \/ fc.fields_removed # {} \/ fc.fields_modified # {}
        old_operations == OperationSets(old_intent.operations)
        new_operations == OperationSets(new_intent.operations)
        ops(operations, entity_name) ==
            IF entity_name \in DOMAIN operations THEN operations[entity_name] ELSE {}
    IN [entities_added |-> new_entity_names \ old_entity_names,
        entities_removed |-> old_entity_names \ new_entity_names,
        entities_modified |->
            [n \in {e \in new_entity_names \cap old_entity_names : any_change(field_changes(e))}
                |-> field_changes(n)],
        operations_changed |->
            [n \in {e \in DOMAIN old_operations \cup DOMAIN new_operations :
                        ops(old_operations, e) # ops(new_operations, e)}
                |-> [added |-> ops(new_operations, n) \ ops(old_operations, n),
                     removed |-> ops(old_operations, n) \ ops(new_operations, n)]],
        ui_changed |-> old_intent.ui_expectations # new_intent.ui_expectations]

FieldRuleLayers ==
    {"backend_models", "database", "backend_services", "backend_routes", "frontend_ui"}

\* An operation rule that leaves the UI layer alone.
OperationRuleWithoutUI == {"backend_services", "backend_routes"}

OperationRuleLayers == {"backend_services", "backend_routes", "frontend_ui"}

\* Rules 3 to 5 with a UI rule that reaches the route layer as well.
AffectedByRulesWideUI(changes) ==
    (IF DOMAIN changes.entities_modified # {} THEN FieldRuleLayers ELSE {})
    \cup (IF DOMAIN changes.operations_changed # {} THEN OperationRuleLayers ELSE {})
    \cup (IF changes.ui_changed /\ DOMAIN changes.entities_modified = {}
                                /\ DOMAIN changes.operations_changed = {}
          THEN {"frontend_ui", "backend_routes"} ELSE {})

\* The layer set of rules 3 to 5, before it is filtered to the architecture.
AffectedByRules(changes) ==
    (IF DOMAIN changes.entities_modified # {} THEN FieldRuleLayers ELSE {})
    \cup (IF DOMAIN changes.operations_changed # {} THEN OperationRuleLayers ELSE {})
    \cup (IF changes.ui_changed /\ DOMAIN changes.entities_modified = {}
                                /\ DOMAIN changes.operations_changed = {}
          THEN {"frontend_ui"} ELSE {})

\* The removal rule left out: only an added entity forces every layer.
DetermineWithoutRemovalRule(changes, architecture) ==
    LET all_layer_ids == LayerIdsOf(architecture)
    IN IF changes.entities_added # {} THEN all_layer_ids
       ELSE SelectSeq(all_layer_ids, LAMBDA layer_id : layer_id \in AffectedByRules(changes))

\* The field rule reaching the app-bootstrap layer as well.
DetermineWithBootstrap(changes, architecture) ==
    LET all_layer_ids == LayerIdsOf(architecture)
        affected == AffectedByRules(changes)
                       \cup (IF DOMAIN changes.entities_modified # {}
                             THEN {"backend_app"} ELSE {})
    IN IF changes.entities_added # {} \/ changes.entities_removed # {} THEN all_layer_ids
       ELSE SelectSeq(all_layer_ids, LAMBDA layer_id : layer_id \in affected)

_determine_affected_layers(changes, architecture) ==
    LET all_layer_ids == LayerIdsOf(architecture)
    IN IF changes.entities_added # {} THEN all_layer_ids
       ELSE IF changes.entities_removed # {} THEN all_layer_ids
       ELSE SelectSeq(all_layer_ids, LAMBDA layer_id : layer_id \in AffectedByRules(changes))

\* ------------------------------------------------------------------ orchestrator graph
MaxRuns == 3        \* invocations of the orchestrator graph on one thread

\* The nodes of the orchestrator graph in the order its edges chain them.
StageOrder ==
    <<"initialize_graph", "intent_interpreter", "save_intent", "architect",
      "save_architecture", "impact_analysis", "spec_planner", "save_spec_plan",
      "code_agents", "finalize">>

\* An edge list in which the intent is handed to the architect without being saved.
EdgeSkippingSave(node) ==
    CASE node = "initialize_graph"   -> "intent_interpreter"
      [] node = "intent_interpreter" -> "architect"
      [] node = "save_intent"        -> "architect"
      [] node = "architect"          -> "save_architecture"
      [] node = "save_architecture"  -> "impact_analysis"
      [] node = "impact_analysis"    -> "spec_planner"
      [] node = "spec_planner"       -> "save_spec_plan"
      [] node = "save_spec_plan"     -> "code_agents"
      [] node = "code_agents"        -> "finalize"
      [] node = "finalize"           -> "END"

\* workflow.add_edge(node, Edge(node)) of create_orchestrator_graph.
Edge(node) ==
    CASE node = "initialize_graph"   -> "intent_interpreter"
      [] node = "intent_interpreter" -> "save_intent"
      [] node = "save_intent"        -> "architect"
      [] node = "architect"          -> "save_architecture"
      [] node = "save_architecture"  -> "impact_analysis"
      [] node = "impact_analysis"    -> "spec_planner"
      [] node = "spec_planner"       -> "save_spec_plan"
      [] node = "save_spec_plan"     -> "code_agents"
      [] node = "code_agents"        -> "finalize"
      [] node = "finalize"           -> "END"

\* A node returned new_state: it becomes the checkpoint and the edge names the next node.
Commit(node, new_state) ==
    /\ state' = new_state
    /\ pc' = Edge(node)
    /\ UNCHANGED error

\* An unwinding that takes the finalize-time snapshot on its way out.
RaiseSnapshotting(message) ==
    /\ pc' = "error"
    /\ error' = message
    /\ state' = [state EXCEPT !.existing_intent = state.intent,
                              !.existing_architecture = state.architecture]

\* A node raised: the run unwinds, the checkpoint keeps the last committed state.
Raise(message) ==
    /\ pc' = "error"
    /\ error' = message
    /\ UNCHANGED state

Started(node) == trace' = Append(trace, node)

\* The inputs main.py hands to the graph: the first request, then feedback.
Inputs == {[raw_user_input |-> "track my tasks"], [user_feedback |-> "add a due date"]}

\* graph.stream(input, config) on the thread: the input's keys overwrite the
\* checkpointed state and the graph starts at its entry point.
Invoke ==
    /\ pc \in {"idle", "END", "error"}
    /\ runs < MaxRuns
    /\ runs' = runs + 1
    /\ input' \in Inputs
    /\ state' = IF "raw_user_input" \in DOMAIN input'
                THEN [state EXCEPT !.raw_user_input = input'.raw_user_input]
                ELSE [state EXCEPT !.user_feedback = input'.user_feedback]
    /\ pc' = "initialize_graph"
    /\ sub' = IdleSub
    /\ sub_pc' = "idle"
    /\ fs' = {}
    /\ error' = NONE
    /\ trace' = <<>>
    /\ invoked' = <<>>
    /\ planner_calls' = {}
    /\ UNCHANGED <<disk, probe, finalized>>

AgentRegistry == "agent_registry.json"

LayerConstraints == "layer_constraints.json"

initialize_graph ==
    /\ pc = "initialize_graph"
    /\ Started("initialize_graph")
    /\ Commit("initialize_graph",
              [state EXCEPT
                  !.root_dir = RootDir,
                  !.mode = IF state.user_feedback # NONE THEN "MODIFY" ELSE "CREATE",
                  !.agent_registry = IF @ = NONE THEN AgentRegistry ELSE @,
                  !.layer_constraints = IF @ = NONE THEN LayerConstraints ELSE @])
    /\ UNCHANGED <<sub, sub_pc, fs, disk, invoked, planner_calls, probe, runs, finalized, input>>

\* What the intent chain's structured output may be: an intent with the mode the
\* model reports, or no valid output at all.
RunIntents == {TaskIntent, TaskIntentWithDue}

IntentResponses ==
    {[ok |-> TRUE, intent |-> intent, mode |-> mode] :
        intent \in RunIntents, mode \in {"CREATE", "MODIFY"}}
    \cup {[ok |-> FALSE, intent |-> NoneDict, mode |-> NONE]}

\* The chain IntentInterpreterAgent.execute invokes: the branch is taken on
\* existing_intent alone.
ChainFor(existing_intent) ==
    IF existing_intent = NoneDict THEN "create_chain" ELSE "modify_chain"

intent_interpreter ==
    /\ pc = "intent_interpreter"
    /\ Started("intent_interpreter")
    /\ IF ChainFor(state.existing_intent) = "create_chain" /\ state.raw_user_input = NONE
       THEN Raise("ValueError: raw_user_input is required for CREATE mode")
       ELSE IF ChainFor(state.existing_intent) = "modify_chain" /\ state.user_feedback = NONE
       THEN Raise("ValueError: user_feedback is required for MODIFY mode")
       ELSE \E response \in IntentResponses :
              IF ~response.ok
              THEN Raise("intent chain failed")
              ELSE Commit("intent_interpreter",
                          [state EXCEPT !.intent = response.intent,
                                        !.mode = response.mode])
    /\ UNCHANGED <<sub, sub_pc, fs, disk, invoked, planner_calls, probe, runs, finalized, input>>

\* A save_intent that clears the other two snapshot files when it writes its own.
SaveIntentClearingOthers ==
    /\ pc = "save_intent"
    /\ trace' = Append(trace, "save_intent")
    /\ IF state.intent = NoneDict
       THEN state' = state /\ pc' = "architect" /\ UNCHANGED <<error, disk>>
       ELSE IF state.root_dir = NONE
       THEN /\ pc' = "error"
            /\ error' = "ValueError: root_dir is required in state to save intent"
            /\ UNCHANGED <<state, disk>>
       ELSE /\ disk' = [intent |-> state.intent, architecture |-> NoneDict,
                        spec_plan |-> NoneList]
            /\ state' = state /\ pc' = "architect" /\ UNCHANGED error
    /\ UNCHANGED <<sub, sub_pc, fs, invoked, planner_calls, probe, runs, finalized, input>>

save_intent_node ==
    /\ pc = "save_intent"
    /\ Started("save_intent")
    /\ IF state.intent = NoneDict
       THEN Commit("save_intent", state) /\ UNCHANGED disk
       ELSE IF state.root_dir = NONE
       THEN Raise("ValueError: root_dir is required in state to save intent")
            /\ UNCHANGED disk
       ELSE /\ disk' = [disk EXCEPT !.intent = state.intent]
            /\ Commit("save_intent", state)
    /\ UNCHANGED <<sub, sub_pc, fs, invoked, planner_calls, probe, runs, finalized, input>>

\* The layer lists the architect chain may answer with, each one accepted by
\* ArchitectResponse.validate_layers.
RunLayerLists ==
    {<<"backend_models", "backend_app">>,
     <<"backend_models", "database", "backend_services", "backend_routes",
       "backend_app", "frontend_ui">>,
     <<"backend_models", UnimplementedLayer>>}

RunArchitectures == {ArchitectureOf(ids) : ids \in RunLayerLists}

ArchitectResponses ==
    {[ok |-> TRUE, architecture |-> architecture] : architecture \in RunArchitectures}
    \cup {[ok |-> FALSE, architecture |-> NoneDict]}

architect ==
    /\ pc = "architect"
    /\ Started("architect")
    /\ IF state.intent = NoneDict
       THEN Raise("ValueError: intent is required in state")
       ELSE IF state.agent_registry = NONE
       THEN Raise("ValueError: agent_registry is required in state")
       ELSE \E response \in ArchitectResponses :
              IF ~response.ok
              THEN Raise("architect chain failed")
              ELSE Commit("architect", [state EXCEPT !.architecture = response.architecture])
    /\ UNCHANGED <<sub, sub_pc, fs, disk, invoked, planner_calls, probe, runs, finalized, input>>

save_architecture_node ==
    /\ pc = "save_architecture"
    /\ Started("save_architecture")
    /\ IF state.architecture = NoneDict
       THEN Commit("save_architecture", state) /\ UNCHANGED disk
       ELSE IF state.root_dir = NONE
       THEN Raise("ValueError: root_dir is required in state to save architecture")
            /\ UNCHANGED disk
       ELSE /\ disk' = [disk EXCEPT !.architecture = state.architecture]
            /\ Commit("save_architecture", state)
    /\ UNCHANGED <<sub, sub_pc, fs, invoked, planner_calls, probe, runs, finalized, input>>

impact_analysis_node ==
    /\ pc = "impact_analysis"
    /\ Started("impact_analysis")
    /\ IF state.mode = "CREATE"
       THEN Commit("impact_analysis",
                   [state EXCEPT !.affected_layers = NoneLayers,
                                 !.impact_analysis_changes = NoneDict])
       ELSE IF state.existing_intent = NoneDict \/ state.intent = NoneDict
                                                \/ state.architecture = NoneDict
       THEN IF state.architecture = NoneDict
            THEN Raise("AttributeError: 'NoneType' object has no attribute 'get'")
            ELSE Commit("impact_analysis",
                        [state EXCEPT !.affected_layers = LayerIdsOf(state.architecture),
                                      !.impact_analysis_changes = NoneDict])
       ELSE LET changes == _analyze_intent_changes(state.existing_intent, state.intent)
            IN Commit("impact_analysis",
                      [state EXCEPT
                          !.affected_layers =
                              _determine_affected_layers(changes, state.architecture),
                          !.impact_analysis_changes = changes])
    /\ UNCHANGED <<sub, sub_pc, fs, disk, invoked, planner_calls, probe, runs, finalized, input>>

\* A planner that has a response model for a layer without an agent too.
LayerSpecModelsWithDocs ==
    {"backend_models", "database", "backend_services", "backend_routes",
     "backend_app", "frontend_ui", "docs"}

\* The layer ids the spec planner has a response model for.
LAYER_SPEC_MODELS ==
    {"backend_models", "database", "backend_services", "backend_routes",
     "backend_app", "frontend_ui"}

\* A planner that regenerates every layer whatever impact analysis found.
AlwaysRegenerate(mode, affected_layers, layer_id) == TRUE

should_regenerate(mode, affected_layers, layer_id) ==
    \/ mode = "CREATE"
    \/ affected_layers = NoneLayers
    \/ layer_id \in Range(affected_layers)

\* next((spec for spec in existing_spec_plan if spec.get("layer_id") == layer_id), None)
ExistingLayerSpec(existing_spec_plan, layer_id) ==
    IF existing_spec_plan = NoneList THEN NoneDict
    ELSE LET hits == {i \in 1..Len(existing_spec_plan) :
                         existing_spec_plan[i].layer_id = layer_id}
         IN IF hits = {} THEN NoneDict ELSE existing_spec_plan[Min(hits)]

\* The spec planner node: one spec-plan entry per architecture layer, regenerated
\* through the LLM chain or taken from <root_dir>/spec/spec_plan.json.
spec_planner ==
    /\ pc = "spec_planner"
    /\ Started("spec_planner")
    /\ IF state.intent = NoneDict
       THEN Raise("ValueError: intent is required in state") /\ UNCHANGED planner_calls
       ELSE IF state.architecture = NoneDict
       THEN Raise("ValueError: architecture is required in state") /\ UNCHANGED planner_calls
       ELSE IF state.layer_constraints = NONE
       THEN Raise("ValueError: layer_constraints is required in state")
            /\ UNCHANGED planner_calls
       ELSE IF Len(state.architecture.execution_layers) = 0
       THEN Raise("ValueError: architecture must contain at least one execution layer")
            /\ UNCHANGED planner_calls
       ELSE
         LET ids == LayerIdsOf(state.architecture)
             existing_spec_plan ==
                 IF state.mode = "MODIFY" /\ state.root_dir # NONE THEN disk.spec_plan
                 ELSE NoneList
             executes(i) ==
                 \/ should_regenerate(state.mode, state.affected_layers, ids[i])
                 \/ ExistingLayerSpec(existing_spec_plan, ids[i]) = NoneDict
             regenerated == {i \in 1..Len(ids) : executes(i)}
             unknown == {i \in regenerated : ids[i] \notin LAYER_SPEC_MODELS}
         IN \E chain_fails_at \in regenerated \cup {0} :
              LET stops == unknown \cup ({chain_fails_at} \ {0})
                  stop == Min(stops)
              IN IF stops # {}
                 THEN /\ planner_calls' =
                            {ids[i] : i \in {j \in regenerated : j < stop}}
                            \cup (IF stop \in unknown THEN {} ELSE {ids[stop]})
                      /\ Raise(IF stop \in unknown THEN "ValueError: Unknown layer_id"
                               ELSE "spec planner chain failed")
                 ELSE /\ planner_calls' = {ids[i] : i \in regenerated}
                      /\ Commit("spec_planner",
                                [state EXCEPT !.spec_plan =
                                    [i \in 1..Len(ids) |->
                                        IF i \in regenerated
                                        THEN SpecEntry(ids[i], LayerSpec(ids[i], runs))
                                        ELSE ExistingLayerSpec(existing_spec_plan, ids[i])]])
    /\ UNCHANGED <<sub, sub_pc, fs, disk, invoked, probe, runs, finalized, input>>

save_spec_plan_node ==
    /\ pc = "save_spec_plan"
    /\ Started("save_spec_plan")
    /\ IF state.spec_plan = NoneList \/ state.spec_plan = <<>>
       THEN Commit("save_spec_plan", state) /\ UNCHANGED disk
       ELSE IF state.root_dir = NONE
       THEN Raise("ValueError: root_dir is required in state to save spec_plan")
            /\ UNCHANGED disk
       ELSE /\ disk' = [disk EXCEPT !.spec_plan = state.spec_plan]
            /\ Commit("save_spec_plan", state)
    /\ UNCHANGED <<sub, sub_pc, fs, invoked, planner_calls, probe, runs, finalized, input>>

\* The wrapper node up to code_agents_graph.invoke: a fresh CodeAgentsState is
\* built from the orchestrator state and the sub-graph starts on it.
code_agents_wrapper_node ==
    /\ pc = "code_agents"
    /\ sub_pc = "idle"
    /\ Started("code_agents")
    /\ sub' = CodeAgentsInput(state.intent, state.architecture,
                              IF state.spec_plan = NoneList THEN <<>> ELSE state.spec_plan,
                              state.root_dir)
    /\ sub_pc' = "initialize_execution_queue"
    /\ UNCHANGED <<state, pc, fs, disk, error, invoked, planner_calls, probe, runs, finalized, input>>

\* The wrapper node after the sub-graph returned: only manifests is mapped back.
code_agents_result ==
    /\ pc = "code_agents"
    /\ sub_pc = "END"
    /\ sub_pc' = "returned"
    /\ Commit("code_agents", [state EXCEPT !.manifests = sub.manifests])
    /\ UNCHANGED <<sub, fs, disk, trace, invoked, planner_calls, probe, runs, finalized, input>>

\* dep.strip() on the dependency strings the generation results declare.
\* A dependency string is the sequence of its characters.
Alphabet ==
    <<" ", "a", "b", "c", "d", "e", "f", "g", "h", "i", "j", "k", "l", "m", "n",
      "o", "p", "q", "r", "s", "t", "u", "v", "w", "x", "y", "z">>

\* The position of a character in the order of code points (the space is lowest).
Ord(c) == CHOOSE i \in 1..Len(Alphabet) : Alphabet[i] = c

RECURSIVE LStrip(_)
LStrip(dep) == IF dep # <<>> /\ Head(dep) = " " THEN LStrip(Tail(dep)) ELSE dep

RECURSIVE RStrip(_)
RStrip(dep) ==
    IF dep # <<>> /\ dep[Len(dep)] = " " THEN RStrip(SubSeq(dep, 1, Len(dep) - 1)) ELSE dep

Strip(dep) == RStrip(LStrip(dep))

\* a < b for two strings, as sorted() compares them.
RECURSIVE StrLess(_, _)
StrLess(a, b) ==
    IF b = <<>> THEN FALSE
    ELSE IF a = <<>> THEN TRUE
    ELSE IF Head(a) # Head(b) THEN Ord(Head(a)) < Ord(Head(b))
    ELSE StrLess(Tail(a), Tail(b))

RECURSIVE sorted(_)
sorted(S) ==
    IF S = {} THEN <<>>
    ELSE LET least == CHOOSE a \in S : \A b \in S \ {a} : StrLess(a, b)
         IN <<least>> \o sorted(S \ {least})

\* "\n".join(sorted(all_dependencies)) of the finalizer, as the list of its lines.
RequirementsOf(manifests) ==
    LET files == UNION {Range(manifests[i].manifest_files) : i \in 1..Len(manifests)}
        declared == UNION {Range(f.dependencies) : f \in files}
        all_dependencies == {Strip(dep) : dep \in declared \ {<<>>}}
    IN sorted(all_dependencies)

finalize_node ==
    /\ pc = "finalize"
    /\ Started("finalize")
    /\ IF state.root_dir = NONE
       THEN Raise("ValueError: root_dir is required in state") /\ UNCHANGED fs
       ELSE /\ fs' = fs \cup {<<state.root_dir, "requirements.txt">>,
                              <<state.root_dir, "run.sh">>}
            /\ Commit("finalize",
                      [state EXCEPT
                          !.requirements_text = RequirementsOf(state.manifests),
                          !.existing_intent = state.intent,
                          !.existing_architecture = state.architecture])
    /\ finalized' = IF state.root_dir = NONE THEN finalized ELSE state.spec_plan
    /\ UNCHANGED <<sub, sub_pc, disk, invoked, planner_calls, probe, runs, input>>

Init ==
    /\ state = EmptyState
    /\ pc = "idle"
    /\ sub = IdleSub
    /\ sub_pc = "idle"
    /\ fs = {}
    /\ disk = [intent |-> NoneDict, architecture |-> NoneDict, spec_plan |-> NoneList]
    /\ error = NONE
    /\ trace = <<>>
    /\ invoked = <<>>
    /\ planner_calls = {}
    /\ probe = NoneDict
    /\ runs = 0
    /\ finalized = NoneList
    /\ input = NoneDict

Next ==
    \/ Invoke
    \/ initialize_graph
    \/ intent_interpreter
    \/ save_intent_node
    \/ architect
    \/ save_architecture_node
    \/ impact_analysis_node
    \/ spec_planner
    \/ save_spec_plan_node
    \/ code_agents_wrapper_node
    \/ initialize_execution_queue
    \/ BackendModelAgent
    \/ DatabaseAgent
    \/ BackendServiceAgent
    \/ BackendRouterAgent
    \/ BackendAppAgent
    \/ FrontendAgent
    \/ finalize
    \/ code_agents_result
    \/ finalize_node

Spec == Init /\ [][Next]_vars

\* ------------------------------------------------------------------ impact analysis on its own
\* The layer lists of the architectures handed to impact analysis: the full-stack,
\* backend-only, frontend-only and minimal patterns, and one with a layer that has
\* no generator yet.
ImpactLayerLists ==
    {<<"backend_models", "database", "backend_services", "backend_routes",
       "backend_app", "frontend_ui">>,
     <<"backend_models", "database", "backend_services", "backend_routes", "backend_app">>,
     <<"frontend_ui">>,
     <<"backend_app", "backend_models">>,
     <<"backend_models", "database", "backend_services", "backend_routes",
       "backend_app", "frontend_ui", UnimplementedLayer>>}

ImpactArchitectures == {ArchitectureOf(ids) : ids \in ImpactLayerLists}

\* The impact-analysis node about to run on every combination of mode, old intent
\* (or none), new intent and architecture (or none).
InitImpact ==
    /\ \E mode \in {"CREATE", "MODIFY"} :
       \E existing_intent \in Intents \cup {NoneDict} :
       \E intent \in Intents :
       \E architecture \in ImpactArchitectures \cup {NoneDict} :
           state = [EmptyState EXCEPT
                       !.raw_user_input = "track my tasks",
                       !.root_dir = RootDir,
                       !.mode = mode,
                       !.existing_intent = existing_intent,
                       !.intent = intent,
                       !.architecture = architecture,
                       !.agent_registry = AgentRegistry,
                       !.layer_constraints = LayerConstraints]
    /\ pc = "impact_analysis"
    /\ trace = SubSeq(StageOrder, 1, 5)
    /\ sub = IdleSub
    /\ sub_pc = "idle"
    /\ fs = {}
    /\ disk = [intent |-> NoneDict, architecture |-> NoneDict, spec_plan |-> NoneList]
    /\ error = NONE
    /\ invoked = <<>>
    /\ planner_calls = {}
    /\ probe = NoneDict
    /\ runs = 1
    /\ finalized = NoneList
    /\ input = NoneDict

ImpactSpec == InitImpact /\ [][impact_analysis_node]_vars

\* ------------------------------------------------------------------ claims on the orchestrator
\* Stage number k of StageOrder has returned and its state update is the checkpoint.
Completed(k) ==
    \/ Len(trace) > k
    \/ Len(trace) = k /\ pc = (IF k = Len(StageOrder) THEN "END" ELSE StageOrder[k + 1])

NoOpModifyRun ==
    /\ runs = 2
    /\ state.user_feedback # NONE
    /\ state.existing_intent # NoneDict
    /\ Completed(2)
    /\ ~Completed(10)
    /\ state.intent = state.existing_intent

\* C9: after a completed run, a MODIFY request whose resulting intent is identical to
\* existing_intent gets the empty affected-layer set from impact analysis, and spec
\* planning puts every layer's existing spec (the one the first run produced) into
\* the new plan unchanged without calling the spec-planning chain for any layer.
C9_NoOpFeedbackReusesAll ==
    /\ NoOpModifyRun /\ Completed(6) => state.affected_layers = <<>>
    /\ NoOpModifyRun /\ Completed(7) =>
          /\ planner_calls = {}
          /\ \A i \in 1..Len(state.spec_plan) :
                state.spec_plan[i].spec = LayerSpec(state.spec_plan[i].layer_id, 1)

\* ------------------------------------------------------------------ claims on impact analysis
\* Impact analysis compared two intents: MODIFY mode, both intents and the
\* architecture present, and the node has returned.
IntentsCompared ==
    /\ pc = "spec_planner"
    /\ state.mode = "MODIFY"
    /\ state.existing_intent # NoneDict

SameEntityNames ==
    EntityNames(state.intent.primary_entities)
        = EntityNames(state.existing_intent.primary_entities)

\* Some entity present in both intents has different field definitions in the two.
SharedEntityFieldsDiffer ==
    \E i \in 1..Len(state.existing_intent.primary_entities) :
    \E j \in 1..Len(state.intent.primary_entities) :
        /\ state.existing_intent.primary_entities[i].name
              = state.intent.primary_entities[j].name
        /\ Range(state.existing_intent.primary_entities[i].fields)
              # Range(state.intent.primary_entities[j].fields)

\* C8: in MODIFY mode, when some entity name is only in the new intent or only in the
\* old one, the affected layers are all the layer ids of the architecture, whatever
\* field, operation or UI differences are present as well.
C8_EntityChangeAffectsAll ==
    IntentsCompared /\ ~SameEntityNames =>
        state.affected_layers = LayerIdsOf(state.architecture)

\* An entity was removed while a shared entity's fields, the operations and the UI
\* changed too, on the architecture with seven layers.
C8_Witness ==
    /\ IntentsCompared
    /\ EntityNames(state.existing_intent.primary_entities) = {"Task", "Note"}
    /\ EntityNames(state.intent.primary_entities) = {"Task"}
    /\ SharedEntityFieldsDiffer
    /\ state.intent.operations # state.existing_intent.operations
    /\ state.intent.ui_expectations # state.existing_intent.ui_expectations
    /\ Len(state.affected_layers) = 7

OperationsOf(intent, entity_name) ==
    UNION {Range(intent.operations[i].operations) :
              i \in {j \in 1..Len(intent.operations) :
                        intent.operations[j].entity_name = entity_name}}

\* Some entity has a different operation set in the old and in the new intent.
OperationSetsDiffer ==
    \E entity_name \in {"Task", "Note"} :
        OperationsOf(state.existing_intent, entity_name)
            # OperationsOf(state.intent, entity_name)

PlanIntents ==
    {[primary_entities |-> <<Entity("Task", fields)>>,
      operations |-> <<Operations("Task", operations)>>,
      ui_expectations |-> ui] :
        fields \in {<<Field("title", "string")>>,
                    <<Field("title", "string"), Field("due_date", "date")>>},
        operations \in {<<"create", "read">>, <<"create">>},
        ui \in {DefaultUI, DashboardUI}}

\* The spec plan an earlier run persisted for the layer list `ids`.
PersistedPlan(ids) == [i \in 1..Len(ids) |-> SpecEntry(ids[i], LayerSpec(ids[i], 1))]

\* What <root_dir>/spec/spec_plan.json may hold when the planner runs: nothing, or
\* the plan of an earlier run on the full-stack, a two-layer or the frontend-only
\* architecture.
PersistedPlans ==
    {NoneList,
     PersistedPlan(<<"backend_models", "database", "backend_services", "backend_routes",
                     "backend_app", "frontend_ui">>),
     PersistedPlan(<<"backend_app", "backend_models">>),
     PersistedPlan(<<"frontend_ui">>)}

\* Impact analysis about to run in the second invocation on a thread, followed by
\* the spec planner.
InitPlan ==
    /\ \E mode \in {"CREATE", "MODIFY"} :
       \E existing_intent \in PlanIntents \cup {NoneDict} :
       \E intent \in PlanIntents :
       \E architecture \in ImpactArchitectures :
           state = [EmptyState EXCEPT
                       !.raw_user_input = "track my tasks",
                       !.user_feedback = IF mode = "MODIFY" THEN "add a due date" ELSE NONE,
                       !.root_dir = RootDir,
                       !.mode = mode,
                       !.existing_intent = existing_intent,
                       !.intent = intent,
                       !.architecture = architecture,
                       !.agent_registry = AgentRegistry,
                       !.layer_constraints = LayerConstraints]
    /\ \E spec_plan \in PersistedPlans :
           disk = [intent |-> state.intent, architecture |-> state.architecture,
                   spec_plan |-> spec_plan]
    /\ pc = "impact_analysis"
    /\ trace = SubSeq(StageOrder, 1, 5)
    /\ sub = IdleSub
    /\ sub_pc = "idle"
    /\ fs = {}
    /\ error = NONE
    /\ invoked = <<>>
    /\ planner_calls = {}
    /\ probe = NoneDict
    /\ runs = 2
    /\ finalized = NoneList
    /\ input = NoneDict

PlanStep ==
    \/ impact_analysis_node
    \/ spec_planner

PlanSpec == InitPlan /\ [][PlanStep]_vars

\* The new intent is the old one with other ui_expectations.
UiOnlyChange ==
    /\ state.existing_intent # NoneDict
    /\ state.intent.ui_expectations # state.existing_intent.ui_expectations
    /\ state.intent.primary_entities = state.existing_intent.primary_entities
    /\ state.intent.operations = state.existing_intent.operations

\* The entries of the persisted spec plan for a layer id.
PersistedEntries(layer_id) ==
    IF disk.spec_plan = NoneList THEN {}
    ELSE {disk.spec_plan[k] : k \in {j \in 1..Len(disk.spec_plan) :
                                        disk.spec_plan[j].layer_id = layer_id}}

\* C12: when old and new intent differ in ui_expectations only, the affected layers
\* are exactly frontend_ui (none when the architecture has no frontend_ui), and the
\* spec planner puts the existing spec of every backend layer into the new plan
\* unchanged, without a planning call for it.
C12_UiChangeAffectsFrontendOnly ==
    /\ state.mode = "MODIFY" /\ UiOnlyChange /\ Completed(6)
          => state.affected_layers
                = SelectSeq(LayerIdsOf(state.architecture), LAMBDA id : id = "frontend_ui")
    /\ state.mode = "MODIFY" /\ UiOnlyChange /\ Completed(7)
          => \A i \in 1..Len(state.spec_plan) :
                LET layer_id == state.architecture.execution_layers[i].id
                IN layer_id # "frontend_ui" /\ PersistedEntries(layer_id) # {}
                      => /\ state.spec_plan[i] \in PersistedEntries(layer_id)
                         /\ layer_id \notin planner_calls

\* A UI-only change on the full-stack architecture with the full plan persisted: only
\* the frontend spec was planned again.
C12_Witness ==
    /\ state.mode = "MODIFY"
    /\ UiOnlyChange
    /\ Completed(7)
    /\ Len(state.spec_plan) = 6
    /\ planner_calls = {"frontend_ui"}
    /\ state.spec_plan[6].spec = LayerSpec("frontend_ui", 2)
    /\ state.spec_plan[5].spec = LayerSpec("backend_app", 1)

\* Impact analysis has run on a state in which it has nothing to compare.
NothingToCompare ==
    \/ state.mode = "CREATE"
    \/ state.existing_intent = NoneDict
    \/ state.intent = NoneDict
    \/ state.architecture = NoneDict

\* C13: in CREATE mode, and in MODIFY mode whenever the old intent, the new intent or
\* the architecture is missing, impact analysis completes with "all layers affected"
\* (affected_layers null or every layer id), never with a partial set and never with
\* an error, the missing architecture included.
C13_MissingInputAffectsAll ==
    Len(trace) = 6 /\ NothingToCompare
        => /\ pc = "spec_planner"
           /\ error = NONE
           /\ \/ state.affected_layers = NoneLayers
              \/ state.affected_layers = LayerIdsOf(state.architecture)

\* The planner's rule for regenerating the spec of a layer, as the contract words it.
MustRegenerate(layer_id) ==
    \/ state.mode = "CREATE"
    \/ state.affected_layers = NoneLayers
    \/ layer_id \in Range(state.affected_layers)

\* C14: the spec plan produced by spec planning has exactly one entry per architecture
\* layer, in architecture order, none dropped: a layer's spec is regenerated when mode
\* is CREATE, or affected_layers is null, or the layer id is in affected_layers;
\* otherwise the existing plan's entry with the same layer id is reused unchanged when
\* one exists, and the spec is regenerated when the existing plan is absent or has no
\* entry for the layer.
C14_SpecPlanCoversEveryLayer ==
    Completed(7) =>
        /\ Len(state.spec_plan) = Len(state.architecture.execution_layers)
        /\ \A i \in 1..Len(state.spec_plan) :
              LET layer_id == state.architecture.execution_layers[i].id
                  reused == ~MustRegenerate(layer_id) /\ PersistedEntries(layer_id) # {}
              IN /\ state.spec_plan[i].layer_id = layer_id
                 /\ reused => /\ state.spec_plan[i] \in PersistedEntries(layer_id)
                              /\ layer_id \notin planner_calls
                 /\ ~reused => /\ state.spec_plan[i].spec = LayerSpec(layer_id, runs)
                               /\ layer_id \in planner_calls

\* A MODIFY run on the full-stack architecture whose persisted plan covers two layers:
\* one of them is affected and planned again, the other is reused, and a layer the
\* persisted plan lacks is planned although it is not affected.
C14_Witness ==
    /\ Completed(7)
    /\ state.mode = "MODIFY"
    /\ Len(state.spec_plan) = 6
    /\ state.affected_layers = <<"backend_models", "database", "backend_services",
                                 "backend_routes", "frontend_ui">>
    /\ Len(disk.spec_plan) = 2
    /\ state.spec_plan[1].spec = LayerSpec("backend_models", 2)
    /\ state.spec_plan[5].spec = LayerSpec("backend_app", 1)
    /\ planner_calls = {"backend_models", "database", "backend_services",
                        "backend_routes", "frontend_ui"}

\* C15: across any sequence of runs on one thread, aborted runs included,
\* existing_intent and existing_architecture are written by the finalize stage only:
\* a step that changes either is the finalize stage completing, after it they equal
\* that run's intent and architecture, and a run that aborts leaves them as they were,
\* so a MODIFY run diffs against the intent of the last run that completed finalize.
C15_SnapshotOnlyAtFinalize ==
    /\ [][(\/ state'.existing_intent # state.existing_intent
           \/ state'.existing_architecture # state.existing_architecture)
             => (pc = "finalize" /\ pc' = "END")]_vars
    /\ [][(pc = "finalize" /\ pc' = "END")
             => (/\ state'.existing_intent = state.intent
                 /\ state'.existing_architecture = state.architecture
                 /\ state'.intent = state.intent
                 /\ state'.architecture = state.architecture)]_vars
    /\ [][(pc' = "error")
             => (/\ state'.existing_intent = state.existing_intent
                 /\ state'.existing_architecture = state.existing_architecture)]_vars
    /\ [](pc = "END" => /\ state.existing_intent = state.intent
                        /\ state.existing_architecture = state.architecture)

\* A run completed finalize, the next run interpreted a different intent and then
\* aborted: the snapshot is still the first run's.
C15_Witness ==
    /\ runs = 2
    /\ pc = "error"
    /\ state.existing_intent = TaskIntent
    /\ state.intent = TaskIntentWithDue
    /\ state.existing_architecture # NoneDict
    /\ state.architecture # state.existing_architecture

\* C16: within one run mode is set once, by initialization (MODIFY when user_feedback
\* is present, CREATE otherwise), and no later stage of the run changes it, whatever
\* mode the intent agent's structured output reports.
C16_ModeSetOncePerRun ==
    /\ [][(state'.mode # state.mode) => (pc = "initialize_graph")]_vars
    /\ [](Completed(1) =>
             state.mode = (IF state.user_feedback # NONE THEN "MODIFY" ELSE "CREATE"))

\* ------------------------------------------------------------------ the wrapper and the sub-graph
\* A run that is about to enter code generation with the spec plan its state holds,
\* which covers the architecture or lacks the spec of one layer.
InitWrapper ==
    /\ \E architecture \in Architectures :
       \E without \in Range(LayerIdsOf(architecture)) \cup {NONE} :
           state = [EmptyState EXCEPT
                       !.raw_user_input = "track my tasks",
                       !.mode = "CREATE",
                       !.root_dir = RootDir,
                       !.intent = TaskIntent,
                       !.architecture = architecture,
                       !.spec_plan = SpecsFor(architecture, without),
                       !.agent_registry = AgentRegistry,
                       !.layer_constraints = LayerConstraints]
    /\ pc = "code_agents"
    /\ trace = SubSeq(StageOrder, 1, 8)
    /\ sub = IdleSub
    /\ sub_pc = "idle"
    /\ fs = {}
    /\ disk = [intent |-> state.intent, architecture |-> state.architecture,
               spec_plan |-> state.spec_plan]
    /\ error = NONE
    /\ invoked = <<>>
    /\ planner_calls = {}
    /\ probe = NoneDict
    /\ runs = 1
    /\ finalized = NoneList
    /\ input = NoneDict

WrapperStep ==
    \/ code_agents_wrapper_node
    \/ SubGraphStep
    \/ code_agents_result
    \/ finalize_node

WrapperSpec == InitWrapper /\ [][WrapperStep]_vars

\* The agent at the cursor is about to run for a layer the spec list has no entry for.
SpecMissingAtCursor ==
    /\ sub_pc \in AgentStages
    /\ \A i \in 1..Len(sub.specs) :
          sub.specs[i].layer_id # sub.execution_queue[sub.next_layer_index + 1][1]

\* C17: a code-gen agent invoked for a queue entry whose layer id has no spec in the
\* spec list raises a fatal error that aborts the run: no manifest is appended, the
\* cursor is not advanced, no file is written, no later layer's agent runs, and
\* neither the sub-graph's nor the orchestrator's finalize is reached.
C17_MissingSpecAbortsRun ==
    /\ [][SpecMissingAtCursor
             => (/\ sub' = sub
                 /\ fs' = fs
                 /\ state' = state
                 /\ sub_pc' = "error"
                 /\ pc' = "error"
                 /\ error' = "ValueError: spec is required in state")]_vars
    /\ [][sub_pc # "error" /\ pc # "error"]_vars
    /\ [](sub_pc = "error" => /\ pc = "error"
                              /\ "finalize" \notin Range(trace)
                              /\ state.requirements_text = NoneText
                              /\ state.existing_intent = NoneDict)

\* The first layer was generated and written, the second has no spec: the run is
\* aborted with the cursor still on the second layer.
C17_Witness ==
    /\ sub_pc = "error"
    /\ pc = "error"
    /\ error = "ValueError: spec is required in state"
    /\ Len(invoked) = 2
    /\ sub.next_layer_index = 1
    /\ Len(sub.execution_queue) = 3
    /\ Len(sub.manifests) = 1
    /\ fs # {}

\* ------------------------------------------------------------------ validation of the architect's output
MaxCandidateLayers == 2     \* longest layer list the architect chain is given to validate

CandidateIds == {"backend_models", "database"}

\* An id that depends_on may name although no layer of the candidate has it.
UnknownLayer == "cache"

\* Layers as the chain's raw structured output may declare them.
CandidateLayers ==
    {[id |-> id, path |-> PathOf(id), depends_on |-> depends_on] :
        id \in CandidateIds, depends_on \in SUBSET (CandidateIds \cup {UnknownLayer})}

CandidateLists == SeqsUpTo(CandidateLayers, MaxCandidateLayers)

\* ExecutionLayer's field validator on depends_on: TRUE when the layer passes.
validate_no_self_dependency(layer) == layer.id \notin layer.depends_on

\* validate_layers without its duplicate-id check.
ValidateLayersAllowingDuplicates(v) ==
    /\ Len(v) # 0
    /\ \A i \in 1..Len(v) : v[i].depends_on \subseteq {v[j].id : j \in 1..Len(v)}
    /\ \A i \in 1..Len(v) : v[i].id \notin v[i].depends_on

\* ArchitectResponse's field validator on execution_layers: TRUE when the list passes.
validate_layers(v) ==
    LET layer_ids == [i \in 1..Len(v) |-> v[i].id]
        all_layer_ids == Range(layer_ids)
    IN /\ Len(v) # 0
       /\ Len(layer_ids) = Cardinality(all_layer_ids)
       /\ \A i \in 1..Len(v) : v[i].depends_on \ all_layer_ids = {}
       /\ \A i \in 1..Len(v) : v[i].id \notin v[i].depends_on

\* Construction of ArchitectResponse from the chain's output: every layer is validated,
\* then the list.
ArchitectResponse(execution_layers) ==
    /\ \A i \in 1..Len(execution_layers) : validate_no_self_dependency(execution_layers[i])
    /\ validate_layers(execution_layers)

\* The architect stage on the chain's raw output, which is held in probe.
InitValidate ==
    /\ state = [EmptyState EXCEPT
                   !.raw_user_input = "track my tasks",
                   !.mode = "CREATE",
                   !.root_dir = RootDir,
                   !.intent = TaskIntent,
                   !.agent_registry = AgentRegistry,
                   !.layer_constraints = LayerConstraints]
    /\ \E execution_layers \in CandidateLists :
           probe = [execution_layers |-> execution_layers]
    /\ pc = "architect"
    /\ trace = SubSeq(StageOrder, 1, 3)
    /\ sub = IdleSub
    /\ sub_pc = "idle"
    /\ fs = {}
    /\ disk = [intent |-> TaskIntent, architecture |-> NoneDict, spec_plan |-> NoneList]
    /\ error = NONE
    /\ invoked = <<>>
    /\ planner_calls = {}
    /\ runs = 1
    /\ finalized = NoneList
    /\ input = NoneDict

\* The architect node when the chain returns the output in probe: the structured
\* output is built, which validates it, and the node stores its dump.
architect_structured_output ==
    /\ pc = "architect"
    /\ Started("architect")
    /\ IF state.intent = NoneDict
       THEN Raise("ValueError: intent is required in state")
       ELSE IF state.agent_registry = NONE
       THEN Raise("ValueError: agent_registry is required in state")
       ELSE IF ~ArchitectResponse(probe.execution_layers)
       THEN Raise("ValidationError: execution_layers")
       ELSE Commit("architect", [state EXCEPT !.architecture = probe])
    /\ UNCHANGED <<sub, sub_pc, fs, disk, invoked, planner_calls, probe, runs, finalized, input>>

ValidateSpec == InitValidate /\ [][architect_structured_output]_vars

\* The three defects of a layer list.
HasDuplicateId(v) == \E i, j \in 1..Len(v) : i # j /\ v[i].id = v[j].id

HasSelfDependency(v) == \E i \in 1..Len(v) : v[i].id \in v[i].depends_on

HasUnknownDependency(v) ==
    \E i \in 1..Len(v) : \E dep \in v[i].depends_on : \A j \in 1..Len(v) : v[j].id # dep

Defective(v) == HasDuplicateId(v) \/ HasSelfDependency(v) \/ HasUnknownDependency(v)

\* C18: validation rejects, before any later stage runs, every layer list with a
\* duplicate layer id, a layer that depends on itself, or a layer that depends on an
\* id that is no layer of the architecture; an architecture that reaches the later
\* stages has none of these defects.
C18_ValidationRejectsDefects ==
    /\ Len(trace) = 4 /\ Defective(probe.execution_layers)
          => /\ pc = "error"
             /\ error = "ValidationError: execution_layers"
             /\ state.architecture = NoneDict
    /\ state.architecture # NoneDict
          => /\ ~Defective(state.architecture.execution_layers)
             /\ state.architecture = probe
             /\ pc = "save_architecture"

\* Two layers with the same id and no other defect were rejected.
C18_Witness ==
    /\ pc = "error"
    /\ Len(trace) = 4
    /\ Len(probe.execution_layers) = 2
    /\ HasDuplicateId(probe.execution_layers)
    /\ ~HasSelfDependency(probe.execution_layers)
    /\ ~HasUnknownDependency(probe.execution_layers)

\* Some layers of v depend on one another in a circle: a non-empty set of layers each
\* of which depends on a layer of the set.
Cyclic(v) ==
    \E S \in SUBSET (1..Len(v)) :
        /\ S # {}
        /\ \A i \in S : \E j \in S : v[j].id \in v[i].depends_on

\* C19: every architecture accepted by validation has an acyclic depends_on graph; no
\* cycle of any length passes validation.
C19_AcceptedIsAcyclic ==
    state.architecture # NoneDict => ~Cyclic(state.architecture.execution_layers)

\* ------------------------------------------------------------------ the finalizer on its own
MaxDeps == 2        \* most dependency strings the manifests declare in all
MaxDepLen == 2      \* longest dependency string

\* Dependency strings over a space and two letters.
DependencyStrings == SeqsUpTo({" ", "a", "b"}, MaxDepLen)

\* How the declared dependencies are spread over manifests and their files.
ManifestShapes == {"no manifests", "one file", "two files", "two manifests"}

\* The manifests of a finished code generation that declare `dependencies`.
ManifestsDeclaring(shape, dependencies) ==
    LET first == SubSeq(dependencies, 1, Min({1, Len(dependencies)}))
        rest == SubSeq(dependencies, 2, Len(dependencies))
        manifest(layer_id, files) ==
            Manifest(layer_id, LayerSpec(layer_id, 1), PathOf(layer_id), files)
    IN CASE shape = "no manifests" -> <<>>
         [] shape = "one file" ->
                <<manifest("backend_models", <<GeneratedFile(<<"module.py">>, dependencies)>>)>>
         [] shape = "two files" ->
                <<manifest("backend_models", <<GeneratedFile(<<"module.py">>, first),
                                               GeneratedFile(<<"extra.py">>, rest)>>)>>
         [] OTHER ->
                <<manifest("backend_models", <<GeneratedFile(<<"module.py">>, first)>>),
                  manifest("backend_app", <<GeneratedFile(<<"main.py">>, rest)>>)>>

\* A run whose code generation returned these manifests and is about to finalize.
InitFinalize ==
    /\ \E shape \in ManifestShapes :
       \E dependencies \in SeqsUpTo(DependencyStrings, MaxDeps) :
           /\ shape = "no manifests" => dependencies = <<>>
           /\ state = [EmptyState EXCEPT
                          !.raw_user_input = "track my tasks",
                          !.mode = "CREATE",
                          !.root_dir = RootDir,
                          !.intent = TaskIntent,
                          !.architecture = ArchitectureOf(<<"backend_models", "backend_app">>),
                          !.spec_plan = SpecsFor(ArchitectureOf(<<"backend_models",
                                                                  "backend_app">>), NONE),
                          !.manifests = ManifestsDeclaring(shape, dependencies),
                          !.agent_registry = AgentRegistry,
                          !.layer_constraints = LayerConstraints]
    /\ pc = "finalize"
    /\ trace = SubSeq(StageOrder, 1, 9)
    /\ sub = IdleSub
    /\ sub_pc = "returned"
    /\ fs = {}
    /\ disk = [intent |-> state.intent, architecture |-> state.architecture,
               spec_plan |-> state.spec_plan]
    /\ error = NONE
    /\ invoked = <<>>
    /\ planner_calls = {}
    /\ probe = NoneDict
    /\ runs = 1
    /\ finalized = NoneList
    /\ input = NoneDict

FinalizeSpec == InitFinalize /\ [][finalize_node]_vars

\* Every dependency string a ManifestFile of a manifest in the state declares.
DeclaredDependencies ==
    UNION {UNION {Range(state.manifests[i].manifest_files[k].dependencies) :
                     k \in 1..Len(state.manifests[i].manifest_files)} :
              i \in 1..Len(state.manifests)}

\* C20: the dependency list the finalizer produces holds exactly the distinct non-empty
\* dependency strings, trimmed of surrounding whitespace, that any ManifestFile of any
\* manifest in the state declares, each once, in ascending order; it has no empty
\* entry and is empty when there are no manifests.
C20_RequirementsAreDeclaredDependencies ==
    Completed(10) =>
        LET lines == state.requirements_text
        IN /\ Range(lines) = {Strip(dep) : dep \in DeclaredDependencies \ {<<>>}}
           /\ \A i, j \in 1..Len(lines) : i < j => StrLess(lines[i], lines[j])
           /\ \A i \in 1..Len(lines) : lines[i] # <<>>
           /\ state.manifests = <<>> => lines = <<>>

\* C21: every invocation of the code-generation sub-graph starts with an empty
\* manifest list, an unset queue and an unset cursor, whatever manifests an earlier run
\* left in the orchestrator state; when it completes, the orchestrator's manifests are
\* the sub-graph's final manifest list, so after a MODIFY run the orchestrator state
\* and the finalizer's dependency list hold no manifest of an earlier run.
C21_SubGraphStartsEmpty ==
    /\ [][(sub_pc = "idle" /\ sub_pc' # "idle")
             => (/\ sub'.manifests = <<>>
                 /\ sub'.execution_queue = NoneQueue
                 /\ sub'.next_layer_index = NoneIndex
                 /\ state' = state)]_vars
    /\ [][(pc = "code_agents" /\ pc' = "finalize")
             => (state'.manifests = sub.manifests /\ sub' = sub)]_vars
    /\ [](Completed(9) => state.manifests = sub.manifests)
    /\ [](Completed(10) =>
             Range(state.requirements_text) =
                {Strip(dep) : dep \in
                    UNION {UNION {Range(sub.manifests[i].manifest_files[k].dependencies) :
                                     k \in 1..Len(sub.manifests[i].manifest_files)} :
                              i \in 1..Len(sub.manifests)}})

\* The second run enters code generation while the state still holds the manifests of
\* the first: the sub-graph starts with none.
C21_Witness ==
    /\ runs = 2
    /\ pc = "code_agents"
    /\ sub_pc = "initialize_execution_queue"
    /\ state.manifests # NoneList
    /\ Len(state.manifests) > 0
    /\ sub.manifests = <<>>

\* ------------------------------------------------------------------ runs across process restarts
\* The process ends between two invocations and a new one builds the graph again:
\* create_orchestrator_graph makes a new MemorySaver, which holds no checkpoint for the
\* thread; the files under generated_apps/ stay.
Restart ==
    /\ pc \in {"END", "error"}
    /\ state' = EmptyState
    /\ pc' = "idle"
    /\ sub' = IdleSub
    /\ sub_pc' = "idle"
    /\ fs' = {}
    /\ error' = NONE
    /\ trace' = <<>>
    /\ invoked' = <<>>
    /\ planner_calls' = {}
    /\ UNCHANGED <<disk, probe, runs, finalized, input>>

RestartNext ==
    \/ Next
    \/ Restart

RestartSpec == Init /\ [][RestartNext]_vars

\* C22: a MODIFY invocation on a thread, made after a run on that thread completed,
\* starts from the state that run finalized (existing_intent, existing_architecture,
\* root_dir), also when the process terminated and was restarted in between: whatever
\* follows a completed run up to the next run's initialization keeps the three fields.
C22_FinalizedStateSurvivesRestart ==
    /\ [][(pc = "END")
             => (/\ state'.existing_intent = state.existing_intent
                 /\ state'.existing_architecture = state.existing_architecture
                 /\ state'.root_dir = state.root_dir)]_vars
    /\ [][(pc = "END" /\ pc' = "initialize_graph" /\ state'.user_feedback # NONE)
             => (/\ state'.existing_intent = state.intent
                 /\ state'.existing_architecture = state.architecture)]_vars

\* ------------------------------------------------------------------ the persist stages on their own
PersistStages == {"save_intent", "save_architecture", "save_spec_plan"}

\* A persist stage about to run on a state in which the value to persist and root_dir
\* may each be present or absent, over any earlier content of the spec directory.
InitPersist ==
    /\ \E intent \in {NoneDict, TaskIntent} :
       \E architecture \in {NoneDict, ArchitectureOf(<<"backend_models", "backend_app">>)} :
       \E spec_plan \in {NoneList, <<>>, PersistedPlan(<<"backend_models", "backend_app">>)} :
       \E root_dir \in {NONE, RootDir} :
           state = [EmptyState EXCEPT
                       !.raw_user_input = "track my tasks",
                       !.mode = "CREATE",
                       !.root_dir = root_dir,
                       !.intent = intent,
                       !.architecture = architecture,
                       !.spec_plan = spec_plan,
                       !.agent_registry = AgentRegistry,
                       !.layer_constraints = LayerConstraints]
    /\ \E intent \in {NoneDict, TaskIntentWithDue} :
       \E architecture \in {NoneDict, ArchitectureOf(<<"frontend_ui">>)} :
       \E spec_plan \in {NoneList, PersistedPlan(<<"frontend_ui">>)} :
           disk = [intent |-> intent, architecture |-> architecture, spec_plan |-> spec_plan]
    /\ pc \in PersistStages
    /\ trace = SubSeq(StageOrder, 1, (CHOOSE k \in 1..Len(StageOrder) : StageOrder[k] = pc) - 1)
    /\ sub = IdleSub
    /\ sub_pc = "idle"
    /\ fs = {}
    /\ error = NONE
    /\ invoked = <<>>
    /\ planner_calls = {}
    /\ probe = NoneDict
    /\ runs = 1
    /\ finalized = NoneList
    /\ input = NoneDict

PersistStep ==
    \/ save_intent_node
    \/ save_architecture_node
    \/ save_spec_plan_node

PersistSpec == InitPersist /\ [][PersistStep]_vars

\* C23: the three persist stages return the workflow state unchanged; each writes only
\* its own snapshot file under root_dir/spec and neither of the other two; when the
\* value to persist is absent the stage writes nothing and succeeds, and when the value
\* is present but root_dir is absent it raises a fatal error.
C23_PersistStagesFrame ==
    /\ [][(pc \in PersistStages) => (state' = state)]_vars
    /\ [][(pc = "save_intent") =>
            IF state.intent = NoneDict
            THEN disk' = disk /\ pc' = "architect" /\ error' = NONE
            ELSE IF state.root_dir = NONE
            THEN disk' = disk /\ pc' = "error" /\ error' # NONE
            ELSE /\ disk' = [intent |-> state.intent, architecture |-> disk.architecture,
                             spec_plan |-> disk.spec_plan]
                 /\ pc' = "architect" /\ error' = NONE]_vars
    /\ [][(pc = "save_architecture") =>
            IF state.architecture = NoneDict
            THEN disk' = disk /\ pc' = "impact_analysis" /\ error' = NONE
            ELSE IF state.root_dir = NONE
            THEN disk' = disk /\ pc' = "error" /\ error' # NONE
            ELSE /\ disk' = [intent |-> disk.intent, architecture |-> state.architecture,
                             spec_plan |-> disk.spec_plan]
                 /\ pc' = "impact_analysis" /\ error' = NONE]_vars
    /\ [][(pc = "save_spec_plan") =>
            IF state.spec_plan = NoneList \/ state.spec_plan = <<>>
            THEN disk' = disk /\ pc' = "code_agents" /\ error' = NONE
            ELSE IF state.root_dir = NONE
            THEN disk' = disk /\ pc' = "error" /\ error' # NONE
            ELSE /\ disk' = [intent |-> disk.intent, architecture |-> disk.architecture,
                             spec_plan |-> state.spec_plan]
                 /\ pc' = "code_agents" /\ error' = NONE]_vars

\* save_intent wrote its file beside the architecture and spec plan of an earlier run.
C23_Witness ==
    /\ Len(trace) = 3
    /\ pc = "architect"
    /\ error = NONE
    /\ disk.intent = TaskIntent
    /\ disk.architecture = ArchitectureOf(<<"frontend_ui">>)
    /\ disk.spec_plan = PersistedPlan(<<"frontend_ui">>)

\* ------------------------------------------------------------------ impact analysis on reordered intents
\* Every arrangement of the items of s.
Arrangements(s) ==
    {[i \in 1..Len(s) |-> s[p[i]]] :
        p \in {q \in [1..Len(s) -> 1..Len(s)] : \A i, j \in 1..Len(s) : q[i] = q[j] => i = j}}

\* An entity with its fields in any order; an operations entry with its verbs in any
\* order.
ReorderedEntity(entity) == {[entity EXCEPT !.fields = f] : f \in Arrangements(entity.fields)}

ReorderedOperations(entry) ==
    {[entry EXCEPT !.operations = o] : o \in Arrangements(entry.operations)}

\* The intents that are `intent` with its entity list, each entity's field list, its
\* operations list and each entry's verbs put in some order.
Reorderings(intent) ==
    LET entity_lists ==
            UNION {{t \in [1..Len(p) -> UNION {ReorderedEntity(p[i]) : i \in 1..Len(p)}] :
                       \A i \in 1..Len(p) : t[i] \in ReorderedEntity(p[i])} :
                   p \in Arrangements(intent.primary_entities)}
        operation_lists ==
            UNION {{t \in [1..Len(p) -> UNION {ReorderedOperations(p[i]) : i \in 1..Len(p)}] :
                       \A i \in 1..Len(p) : t[i] \in ReorderedOperations(p[i])} :
                   p \in Arrangements(intent.operations)}
    IN {[primary_entities |-> e, operations |-> o, ui_expectations |-> intent.ui_expectations] :
           e \in entity_lists, o \in operation_lists}

\* Intents that pass IntentModel's validators: one entity with two fields, two
\* entities, two operations entries for one entity, and two fields of one name.
BaseReorderIntents ==
    {[TaskIntentWithDue EXCEPT !.operations = <<Operations("Task", <<"create">>)>>],
     [primary_entities |-> <<Entity("Task", <<Field("title", "string")>>), NoteEntity>>,
      operations |-> <<Operations("Task", <<"create">>), Operations("Note", <<"read">>)>>,
      ui_expectations |-> DefaultUI],
     [TaskIntent EXCEPT !.operations = <<Operations("Task", <<"create">>),
                                         Operations("Task", <<"read">>)>>],
     [TaskIntent EXCEPT !.primary_entities =
         <<Entity("Task", <<Field("title", "string"), Field("title", "date")>>)>>,
                        !.operations = <<Operations("Task", <<"create">>)>>]}

ReorderIntents == UNION {Reorderings(intent) : intent \in BaseReorderIntents}

\* Impact analysis of a MODIFY run about to compare two of these intents.
InitReorder ==
    /\ \E existing_intent \in ReorderIntents :
       \E intent \in ReorderIntents :
           state = [EmptyState EXCEPT
                       !.raw_user_input = "track my tasks",
                       !.user_feedback = "add a due date",
                       !.root_dir = RootDir,
                       !.mode = "MODIFY",
                       !.existing_intent = existing_intent,
                       !.intent = intent,
                       !.architecture =
                           ArchitectureOf(<<"backend_models", "database", "backend_services",
                                            "backend_routes", "backend_app", "frontend_ui">>),
                       !.agent_registry = AgentRegistry,
                       !.layer_constraints = LayerConstraints]
    /\ pc = "impact_analysis"
    /\ trace = SubSeq(StageOrder, 1, 5)
    /\ sub = IdleSub
    /\ sub_pc = "idle"
    /\ fs = {}
    /\ disk = [intent |-> state.intent, architecture |-> state.architecture,
               spec_plan |-> NoneList]
    /\ error = NONE
    /\ invoked = <<>>
    /\ planner_calls = {}
    /\ probe = NoneDict
    /\ runs = 2
    /\ finalized = NoneList
    /\ input = NoneDict

ReorderSpec == InitReorder /\ [][impact_analysis_node]_vars

\* C24: impact analysis is insensitive to order: reordering the entity list, an
\* entity's field list, the operations list or the verbs of an operations entry, of the
\* old or of the new intent, changes neither the detected changes nor the affected
\* layers, so a new intent that is only a reordering of the old one affects no layer.
C24_ImpactIgnoresOrder ==
    Completed(6) =>
        /\ \A old_intent \in Reorderings(state.existing_intent) :
           \A new_intent \in Reorderings(state.intent) :
              /\ _analyze_intent_changes(old_intent, new_intent) = state.impact_analysis_changes
              /\ _determine_affected_layers(_analyze_intent_changes(old_intent, new_intent),
                                            state.architecture) = state.affected_layers
        /\ state.intent \in Reorderings(state.existing_intent) => state.affected_layers = <<>>

\* C25: the spec a MODIFY run reuses for an unaffected layer is the spec the layer had
\* in the most recent run that reached finalize (the run whose intent is
\* existing_intent), also when a run in between persisted a new spec plan and then
\* aborted during code generation.
C25_ReusedSpecIsLastFinalized ==
    Completed(7) /\ ~Completed(10) =>
        \A i \in 1..Len(state.spec_plan) :
            state.spec_plan[i].layer_id \notin planner_calls
                => /\ finalized # NoneList
                   /\ \E k \in 1..Len(finalized) : finalized[k] = state.spec_plan[i]

\* C26: in every run of any sequence of runs on one thread the intent stage takes its
\* MODIFY branch (evolve existing_intent with user_feedback) exactly when
\* initialization set mode to MODIFY, and its CREATE branch (extract from
\* raw_user_input) exactly when mode is CREATE, also in a run that follows a run which
\* aborted before finalize.
C26_IntentBranchFollowsMode ==
    pc = "intent_interpreter" =>
        /\ state.mode = "MODIFY" <=> ChainFor(state.existing_intent) = "modify_chain"
        /\ state.mode = "CREATE" <=> ChainFor(state.existing_intent) = "create_chain"

\* C27: a run's mode is MODIFY exactly when the input of that invocation supplies
\* user_feedback: an invocation on a used thread whose input supplies only
\* raw_user_input runs in CREATE mode, even though an earlier invocation supplied
\* user_feedback that the checkpointed state still holds.
C27_ModeFollowsInput ==
    pc = "intent_interpreter" =>
        (state.mode = "MODIFY" <=> "user_feedback" \in DOMAIN input)

\* ------------------------------------------------------------------ intents with all their parts
\* The parts of an intent and of its entities that impact analysis has no rule for.
Decorations ==
    {[app_summary |-> "Track tasks", app_category |-> "crud_app",
      assumptions |-> <<"Single-user application", "Local execution">>, non_goals |-> <<>>,
      description |-> "A task to be done", id_strategy |-> "auto_increment",
      natural_key_field |-> NONE],
     [app_summary |-> "A personal task tracker", app_category |-> "other",
      assumptions |-> <<"Single-user application", "Local execution", "Open tasks first">>,
      non_goals |-> <<"No login">>,
      description |-> "A task to be done", id_strategy |-> "auto_increment",
      natural_key_field |-> NONE],
     [app_summary |-> "Track tasks", app_category |-> "crud_app",
      assumptions |-> <<"Single-user application", "Local execution">>, non_goals |-> <<>>,
      description |-> "Something the user wants to get done", id_strategy |-> "natural_key",
      natural_key_field |-> "title"]}

\* The IntentModel dump of `intent` with the decoration's values in the other fields.
Decorated(intent, decoration) ==
    [app_summary |-> decoration.app_summary,
     app_category |-> decoration.app_category,
     primary_entities |->
        [i \in 1..Len(intent.primary_entities) |->
            [name |-> intent.primary_entities[i].name,
             description |-> decoration.description,
             fields |-> intent.primary_entities[i].fields,
             id_strategy |-> decoration.id_strategy,
             natural_key_field |-> decoration.natural_key_field]],
     operations |-> intent.operations,
     ui_expectations |-> intent.ui_expectations,
     assumptions |-> decoration.assumptions,
     non_goals |-> decoration.non_goals]

\* The one-entity intents, and intents with a second entity in two shapes.
FullBaseIntents ==
    PlanIntents \cup
    {[primary_entities |-> <<Entity("Task", <<Field("title", "string")>>),
                             Entity("Tag", fields)>>,
      operations |-> <<Operations("Task", <<"create", "read">>)>>,
      ui_expectations |-> DefaultUI] :
        fields \in {<<Field("label", "string")>>,
                    <<Field("label", "string"), Field("pinned", "boolean")>>}}

FullIntents ==
    {Decorated(intent, decoration) : intent \in FullBaseIntents, decoration \in Decorations}

\* Impact analysis and spec planning of a MODIFY run on two full intents, with the
\* plan of the architecture persisted by the run before.
InitFullIntents ==
    /\ \E existing_intent \in FullIntents :
       \E intent \in FullIntents :
       \E ids \in {<<"backend_models", "database", "backend_services", "backend_routes",
                     "backend_app", "frontend_ui">>,
                   <<"backend_models", "backend_app">>} :
           /\ state = [EmptyState EXCEPT
                          !.raw_user_input = "track my tasks",
                          !.user_feedback = "add a due date",
                          !.root_dir = RootDir,
                          !.mode = "MODIFY",
                          !.existing_intent = existing_intent,
                          !.intent = intent,
                          !.architecture = ArchitectureOf(ids),
                          !.agent_registry = AgentRegistry,
                          !.layer_constraints = LayerConstraints]
           /\ disk = [intent |-> intent, architecture |-> ArchitectureOf(ids),
                      spec_plan |-> PersistedPlan(ids)]
           /\ finalized = PersistedPlan(ids)
    /\ pc = "impact_analysis"
    /\ trace = SubSeq(StageOrder, 1, 5)
    /\ sub = IdleSub
    /\ sub_pc = "idle"
    /\ fs = {}
    /\ error = NONE
    /\ invoked = <<>>
    /\ planner_calls = {}
    /\ probe = NoneDict
    /\ runs = 2
    /\ input = [user_feedback |-> "add a due date"]

FullIntentsSpec == InitFullIntents /\ [][PlanStep]_vars

\* The parts of an intent that impact analysis has rules for.
ComparedParts(intent) ==
    [entities |-> [i \in 1..Len(intent.primary_entities) |->
                      [name |-> intent.primary_entities[i].name,
                       fields |-> intent.primary_entities[i].fields]],
     operations |-> intent.operations,
     ui_expectations |-> intent.ui_expectations]

EntityNameList(intent) ==
    [i \in 1..Len(intent.primary_entities) |-> intent.primary_entities[i].name]

\* The field definitions of the entities of `intent` whose name is in `names`.
FieldsOfEntities(intent, names) ==
    {<<intent.primary_entities[i].name, intent.primary_entities[i].fields>> :
        i \in {k \in 1..Len(intent.primary_entities) : intent.primary_entities[k].name \in names}}

\* The request (old_intent, new_intent) and the request (other_old, other_new) agree
\* on the entity names, on the field definitions of the entities present in both
\* intents of the request, on the operations and on ui_expectations.
RequestsAgree(old_intent, new_intent, other_old, other_new) ==
    LET shared == Range(EntityNameList(old_intent)) \cap Range(EntityNameList(new_intent))
    IN  /\ EntityNameList(old_intent) = EntityNameList(other_old)
        /\ EntityNameList(new_intent) = EntityNameList(other_new)
        /\ FieldsOfEntities(old_intent, shared) = FieldsOfEntities(other_old, shared)
        /\ FieldsOfEntities(new_intent, shared) = FieldsOfEntities(other_new, shared)
        /\ old_intent.operations = other_old.operations
        /\ new_intent.operations = other_new.operations
        /\ old_intent.ui_expectations = other_old.ui_expectations
        /\ new_intent.ui_expectations = other_new.ui_expectations

\* C28: the affected layers depend only on the entity names, the field definitions,
\* the per-entity operation sets and ui_expectations: two MODIFY requests whose old
\* intents agree and whose new intents agree on these parts get the same affected
\* layers, so a new intent that differs from the old one only in app_summary,
\* app_category, assumptions, non_goals or an entity's description, id_strategy or
\* natural_key_field affects no layer and no spec is planned again.
C28_AffectedLayersIgnoreOtherParts ==
    /\ Completed(6) =>
          /\ \A old_intent \in FullIntents : \A new_intent \in FullIntents :
                RequestsAgree(state.existing_intent, state.intent, old_intent, new_intent)
                => _determine_affected_layers(_analyze_intent_changes(old_intent, new_intent),
                                              state.architecture) = state.affected_layers
          /\ ComparedParts(state.intent) = ComparedParts(state.existing_intent)
                => state.affected_layers = <<>>
    /\ Completed(7) /\ ComparedParts(state.intent) = ComparedParts(state.existing_intent)
          => /\ planner_calls = {}
             /\ state.spec_plan = disk.spec_plan

\* The new intent has another summary, category, assumptions and non-goals than the
\* old one and nothing else: no layer is affected and the whole plan was reused.
C28_Witness ==
    /\ Completed(7)
    /\ state.intent # state.existing_intent
    /\ state.intent.app_summary # state.existing_intent.app_summary
    /\ ComparedParts(state.intent) = ComparedParts(state.existing_intent)
    /\ state.affected_layers = <<>>
    /\ Len(state.spec_plan) = 6
    /\ planner_calls = {}

\* Two agreeing requests that differ in the fields of an entity only the new intent
\* has, and in the summary: both were analysed to the same affected layers.
C28_AgreeingRequests ==
    /\ Completed(6)
    /\ Len(state.affected_layers) = 6
    /\ \E old_intent \in FullIntents : \E new_intent \in FullIntents :
          /\ RequestsAgree(state.existing_intent, state.intent, old_intent, new_intent)
          /\ ComparedParts(new_intent) # ComparedParts(state.intent)
          /\ old_intent.app_summary # state.existing_intent.app_summary

\* The layer ids the router has an agent stage for.
RoutedLayers == {id \in LayerIds : global_router(0, <<<<id, "path">>>>) \in AgentStages}

\* C29: every execution queue built by initialize_execution_queue is routed entry by
\* entry to an agent stage and the router never raises the unknown-layer error: the
\* allowlist, the router's mapping and the spec planner's mapping name the same six
\* layer ids.
C29_RouterKnowsEveryQueuedLayer ==
    /\ sub.execution_queue # NoneQueue =>
          /\ sub.execution_queue =
                BuildQueue(sub.architecture.execution_layers, implemented_layers)
          /\ \A i \in 1..Len(sub.execution_queue) :
                /\ global_router(i - 1, sub.execution_queue) \in AgentStages
                /\ global_router(i - 1, sub.execution_queue) = AgentOfLayer[sub.execution_queue[i][1]]
    /\ error # "ValueError"
    /\ implemented_layers = RoutedLayers
    /\ implemented_layers = LAYER_SPEC_MODELS
    /\ Cardinality(implemented_layers) = 6

\* A queue was built from an architecture that declares "docs" too, and the router
\* sent its first entry to the agent of that layer.
C29_Witness ==
    /\ sub_pc \in AgentStages
    /\ sub.next_layer_index = 0
    /\ \E i \in 1..Len(sub.architecture.execution_layers) :
          sub.architecture.execution_layers[i].id = UnimplementedLayer
    /\ Len(sub.execution_queue) = Len(sub.architecture.execution_layers) - 1
    /\ sub_pc = AgentOfLayer[sub.execution_queue[1][1]]

\* The run is in CREATE mode: by what initialization decided (no user_feedback in the
\* state) or by the mode the state holds when the specs are planned.
CreateRun == state.user_feedback = NONE \/ state.mode = "CREATE"

\* Every layer of the architecture as a queue entry, in declared order.
DeclaredQueue(architecture) ==
    [i \in 1..Len(architecture.execution_layers) |->
        <<architecture.execution_layers[i].id, architecture.execution_layers[i].path>>]

\* C30: in an orchestrator run in CREATE mode that reaches code generation the
\* execution queue holds every layer of the architecture in declared order, every
\* queued layer has a spec in the spec plan, and the queue is never empty: spec
\* planning has aborted the run on an empty layer list and on any layer id outside
\* the six known ones.
C30_CreateRunQueuesEveryLayer ==
    /\ pc = "code_agents" /\ CreateRun =>
          /\ state.architecture # NoneDict
          /\ Len(state.architecture.execution_layers) > 0
          /\ \A i \in 1..Len(state.architecture.execution_layers) :
                state.architecture.execution_layers[i].id \in implemented_layers
          /\ state.spec_plan # NoneList
    /\ pc = "code_agents" /\ CreateRun /\ sub.execution_queue # NoneQueue =>
          /\ sub.execution_queue = DeclaredQueue(state.architecture)
          /\ Len(sub.execution_queue) > 0
          /\ \A i \in 1..Len(sub.execution_queue) :
                FindSpec(state.spec_plan, sub.execution_queue[i][1]) # NoneDict

\* The first run on a thread, in CREATE mode, built the queue of the six-layer
\* architecture and the router named the first agent.
C30_Witness ==
    /\ pc = "code_agents"
    /\ runs = 1
    /\ state.mode = "CREATE"
    /\ state.user_feedback = NONE
    /\ sub_pc = "backend_model_agent"
    /\ Len(sub.execution_queue) = 6
    /\ sub.execution_queue = DeclaredQueue(state.architecture)
    /\ planner_calls = implemented_layers

====
